---- MODULE Spec2Model ----
(***************************************************************************)
(* A model of the campus RAG service (src/RAG): the three parallel indices *)
(* (relational store, vector collections, on-disk chunk file and sparse    *)
(* model), the dataset cache, the admin moderation queue, the router, the  *)
(* per-corpus hybrid retrieval and the date post-filter of /ask.           *)
(*                                                                         *)
(* Abstractions.  A source row is identified by its key: the              *)
(* (title, board, date) triple that make_doc_id hashes; key 0 is a row     *)
(* whose body is blank.  SHA1 is modelled as an injective constructor.     *)
(* Every non-blank document yields one chunk (position 0).  Embeddings are *)
(* not represented: the embedding service either answers or raises.       *)
(***************************************************************************)
EXTENDS Integers, Sequences, FiniteSets, TLC

\* ------------------------------------------------------------- bounds
MaxDoc == 1
MaxRows == 1
MaxItems == 2
MaxManual == 2
MaxClasses == 2
ProbScale == 4
MaxDay == 2
TicksPerDay == 2
MaxHits == 1
MaxRoute == 2
MaxChunks == 3
MaxScore == 1
MaxK == 2
MaxMerged == 3
MaxHybrid == 1
MaxSparse == 2
MaxReq == 2
MaxSessions == 2
MaxIngestRuns == 2
MaxServeRows == 2
MaxQ == 1
MaxMtime == 1
MaxText == 6
MaxSize == 3
MaxOverlap == 4
MaxWords == 2

\* ---------------------------------------------------------- constants
NULL == 0
NoMtime == -1
Corpus == {"notices", "schedule"}
DocKeys == 1..MaxDoc
Rows == 0..MaxDoc
RowSeqs == UNION {[1..n -> Rows] : n \in 0..MaxRows}
NoFile == [exists |-> FALSE, rows |-> <<>>]
Files == {NoFile} \cup {[exists |-> TRUE, rows |-> r] : r \in RowSeqs}
SourceTypes == {"announcement", "event", "custom_knowledge", "other"}
Failures == {"none", "encode", "upsert"}
\* What a run of a loader meets: the source CSV and the failure of the embedding
\* service or the vector store.  A failure is drawn only where the run gets to
\* the call that can fail.
LoaderEnvs ==
    {[f |-> f, fail |-> x] : f \in Files, x \in Failures} \ 
    {[f |-> f, fail |-> x] : f \in {g \in Files : \A j \in 1..Len(g.rows) : g.rows[j] = 0},
                            x \in Failures \ {"none"}}
VARIABLES
    srcTable,   \* srcTable[c]: rows of the notices / schedule table
    ckTable,    \* rows of custom_knowledge
    chunks,     \* rows of the relational chunks table
    vec,        \* vec[c]: ids held by the vector collection of corpus c
    disk,       \* disk[c]: the chunk file and the sparse-model file of c
    datasets,   \* the in-process dataset cache _datasets
    pending,    \* the pending_items table, indexed by primary key
    last,       \* the operation that produced this state and what it returned
    rt,         \* router: one route_query call
    hs,         \* retriever: one hybrid_search call
    aq,         \* /ask: one date-filtered retrieval
    rk,         \* /ask: one re-ranking of a merged result set
    mo,         \* fusion: one score raised, the ranking before and after
    req,        \* req[r]: the /ask request r, its position and its locals
    history,    \* history[s]: the messages of chat session s
    ing,        \* the ingest process: its position and its locals
    ct,         \* chunk_text: one call, its loop variable and the windows cut so far
    dp          \* extract_date_range_from_query: one call, the clock and its result

storeVars == <<srcTable, ckTable, chunks, vec, disk, datasets, pending, last>>
vars == <<srcTable, ckTable, chunks, vec, disk, datasets, pending, last, rt, hs, aq, rk, mo, req, history, ing, ct, dp>>

\* ------------------------------------------------------------ helpers
Range(s) == {s[i] : i \in 1..Len(s)}
NoDup(s) == \A i, j \in 1..Len(s) : i # j => s[i] # s[j]
MaxOf(S) == IF S = {} THEN 0 ELSE CHOOSE m \in S : \A x \in S : x <= m

\* ---------------------------------------------------------------- ids
make_doc_id(prefix, a, b) == <<"doc", prefix, a, b, 0>>
make_chunk_id(doc_id, index) == <<"chunk", doc_id[2], doc_id[3], doc_id[4], index>>

\* ------------------------------------------------------- bulk ingest
\* The primary key SQLite gives the next inserted row: max(rowid) + 1.
NextId(table) == MaxOf({r.id : r \in table}) + 1

ChunkRow(cid, c, pid) ==
    [chunk_id |-> cid,
     notice_id |-> IF c = "notices" THEN pid ELSE NULL,
     schedule_id |-> IF c = "schedule" THEN pid ELSE NULL,
     custom_knowledge_id |-> IF c = "custom_knowledge" THEN pid ELSE NULL]

ParentOf(row, c) == IF c = "notices" THEN row.notice_id ELSE row.schedule_id

\* ingest_notices stores every CSV row; ingest_schedule skips a row whose
\* description is empty, so its primary keys count the non-blank rows only.
SourceId(c, rows, i) ==
    IF c = "notices" THEN i ELSE Cardinality({j \in 1..i : rows[j] # 0})

FreshSources(c, rows) ==
    {[id |-> SourceId(c, rows, i), key |-> rows[i], manual |-> FALSE] :
        i \in {j \in 1..Len(rows) : c = "notices" \/ rows[j] # 0}}

RECURSIVE BuildChunksFrom(_, _, _)
BuildChunksFrom(c, rows, i) ==
    IF i > Len(rows) THEN <<>>
    ELSE (IF rows[i] = 0 THEN <<>>
          ELSE <<[chunk_id |-> make_chunk_id(make_doc_id(c, rows[i], 0), 0),
                  parent |-> SourceId(c, rows, i)]>>)
         \o BuildChunksFrom(c, rows, i + 1)

BuildChunks(c, rows) == BuildChunksFrom(c, rows, 1)

ChunkIds(df) == [i \in 1..Len(df) |-> df[i].chunk_id]

\* to_sql(..., if_exists="append") against the unique index on chunk_id.
SaveChunksConflict(table, df) ==
    \/ ~NoDup(ChunkIds(df))
    \/ \E r \in table : r.chunk_id \in Range(ChunkIds(df))

SaveChunksToSqlite(table, df, c) ==
    table \cup {ChunkRow(df[i].chunk_id, c, df[i].parent) : i \in 1..Len(df)}

NoArtifacts ==
    [chunk_exists |-> FALSE, chunk_ids |-> <<>>, chunk_mtime |-> NoMtime,
     tfidf_exists |-> FALSE, tfidf_rows |-> <<>>, tfidf_mtime |-> NoMtime]

NoEntry ==
    [loaded |-> FALSE, chunks |-> <<>>, vectorizer |-> FALSE, matrix |-> <<>>,
     chunk_mtime |-> NoMtime, tfidf_mtime |-> NoMtime]

\* The mtime a rewritten artifact gets.  Mtimes are only ever compared for
\* equality with the ones a cache entry recorded, so the new one is the least
\* time that differs from the file's previous mtime and from the recorded one.
FreshMtime(w, c) ==
    LET used == {w.disk[c].chunk_mtime, w.disk[c].tfidf_mtime,
                 w.datasets[c].chunk_mtime, w.datasets[c].tfidf_mtime}
    IN CHOOSE t \in 0..4 : t \notin used /\ \A u \in 0..(t - 1) : u \in used

Raised(w, err) ==
    [w |-> w, ok |-> FALSE, err |-> err,
     chunks |-> <<>>, vectorizer |-> FALSE, matrix |-> <<>>]

\* The vector collection after delete_items(existing - new): lines 86-97.
DeleteObsolete(existing, new) == existing \ (existing \ new)

\* _persist_chunks with the ids to delete not reduced by the new ids and the
\* delete issued after the upsert.
PersistChunksStaleDelete(w, c, ids, fail) ==
    IF ids = <<>>
    THEN [w |-> w, ok |-> TRUE, err |-> "none",
          chunks |-> <<>>, vectorizer |-> FALSE, matrix |-> <<>>]
    ELSE IF fail # "none"
    THEN Raised(w, fail)
    ELSE [w |-> [w EXCEPT !.vec[c] = (w.vec[c] \cup Range(ids)) \ w.vec[c],
                          !.disk[c] = [chunk_exists |-> TRUE, chunk_ids |-> ids,
                                       chunk_mtime |-> FreshMtime(w, c),
                                       tfidf_exists |-> TRUE, tfidf_rows |-> ids,
                                       tfidf_mtime |-> FreshMtime(w, c)]],
          ok |-> TRUE, err |-> "none",
          chunks |-> ids, vectorizer |-> TRUE, matrix |-> ids]

\* _persist_chunks on world w: [w, ok, err, chunks, vectorizer, matrix].
PersistChunks(w, c, ids, fail) ==
    IF ids = <<>>
    THEN [w |-> w, ok |-> TRUE, err |-> "none",
          chunks |-> <<>>, vectorizer |-> FALSE, matrix |-> <<>>]
    ELSE IF fail = "encode"
    THEN Raised(w, "encode")
    ELSE LET kept == DeleteObsolete(w.vec[c], Range(ids))
         IN IF fail = "upsert"
            THEN Raised([w EXCEPT !.vec[c] = kept], "upsert")
            ELSE [w |-> [w EXCEPT !.vec[c] = kept \cup Range(ids),
                                  !.disk[c] = [chunk_exists |-> TRUE, chunk_ids |-> ids,
                                               chunk_mtime |-> FreshMtime(w, c),
                                               tfidf_exists |-> TRUE, tfidf_rows |-> ids,
                                               tfidf_mtime |-> FreshMtime(w, c)]],
                  ok |-> TRUE, err |-> "none",
                  chunks |-> ids, vectorizer |-> TRUE, matrix |-> ids]

\* An ingest that spares the records approvals created.
KeepManualSources(table, c, rows) == {p \in table : p.manual} \cup FreshSources(c, rows)

\* session.query(<Source>).delete(), then add_all of the rows of the file.
ReplaceSources(table, c, rows) == FreshSources(c, rows)

\* An ingest that leaves the chunk rows of the corpus in place.
DeleteNoChunks(table, c) == table

\* session.query(Chunk).filter(Chunk.<c>_id.isnot(None)).delete()
DeleteCorpusChunks(table, c) == {r \in table : ParentOf(r, c) = NULL}

\* ingest_notices / ingest_schedule on world w, reading source file f.
IngestCorpus(w, c, f, fail) ==
    IF ~f.exists
    THEN Raised(w, "missing")
    ELSE LET w1 == [w EXCEPT !.chunks = DeleteCorpusChunks(w.chunks, c),
                             !.src[c] = ReplaceSources(w.src[c], c, f.rows)]
             df == BuildChunks(c, f.rows)
         IN IF df # <<>> /\ SaveChunksConflict(w1.chunks, df)
            THEN Raised(w1, "integrity")
            ELSE PersistChunks([w1 EXCEPT !.chunks = SaveChunksToSqlite(w1.chunks, df, c)],
                               c, ChunkIds(df), fail)

World == [src |-> srcTable, ck |-> ckTable, chunks |-> chunks, vec |-> vec,
          disk |-> disk, datasets |-> datasets, pending |-> pending]

SetWorld(w) ==
    /\ srcTable' = w.src
    /\ ckTable' = w.ck
    /\ chunks' = w.chunks
    /\ vec' = w.vec
    /\ disk' = w.disk
    /\ datasets' = w.datasets
    /\ pending' = w.pending

NoChunk == <<"none", "none", 0, 0, 0>>
NoRet == [chunks |-> <<>>, vectorizer |-> FALSE, matrix |-> <<>>]
Ret(r) == [chunks |-> r.chunks, vectorizer |-> r.vectorizer, matrix |-> r.matrix]

Last(op, c, id, ok, status, err, chunk_id, src_id, ret, file, streak) ==
    [op |-> op, c |-> c, id |-> id, ok |-> ok, status |-> status, err |-> err,
     chunk_id |-> chunk_id, src_id |-> src_id, ret |-> ret, file |-> file,
     streak |-> streak]

\* `python -m src.pipelines.ingest --target c`: bulk ingest in its own process,
\* reading the source CSV f the crawler left.
Ingest(c, f, fail) ==
    /\ LET r == IngestCorpus(World, c, f, fail)
       IN /\ SetWorld(r.w)
          /\ last' = Last("ingest", c, 0, r.ok, IF r.ok THEN "done" ELSE "raised", r.err, NoChunk, 0, Ret(r), f,
                          IF ~r.ok THEN 0
                          ELSE IF last.op = "ingest" /\ last.c = c /\ last.file = f
                          THEN (IF last.ok THEN 2 ELSE 3) ELSE 1)
    /\ UNCHANGED <<rt, hs, aq, rk, mo, req, history, ing, ct, dp>>

\* ------------------------------------------------------ dataset cache
\* _ensure_dataset(key) on world w; f and lfail are the source CSV and the
\* failure the loader meets when the artifacts are absent and it ingests.
\* A lookup that trusts any entry it finds.
CacheHitAny(cache, d) == cache.loaded

\* if cache and cache.chunk_mtime == chunk_mtime and cache.tfidf_mtime == ...
CacheHit(cache, d) ==
    /\ cache.loaded
    /\ cache.chunk_mtime = d.chunk_mtime
    /\ cache.tfidf_mtime = d.tfidf_mtime

EnsureDataset(w, key, f, lfail) ==
    LET d == w.disk[key]
        cache == w.datasets[key]
    IN IF CacheHit(cache, d)
       THEN [w |-> w, ok |-> TRUE, err |-> "none", chunks |-> cache.chunks,
             vectorizer |-> cache.vectorizer, matrix |-> cache.matrix]
       ELSE IF d.chunk_exists /\ d.tfidf_exists
       THEN [w |-> [w EXCEPT !.datasets[key] =
                        [loaded |-> TRUE, chunks |-> d.chunk_ids, vectorizer |-> TRUE,
                         matrix |-> d.tfidf_rows, chunk_mtime |-> d.chunk_mtime,
                         tfidf_mtime |-> d.tfidf_mtime]],
             ok |-> TRUE, err |-> "none", chunks |-> d.chunk_ids,
             vectorizer |-> TRUE, matrix |-> d.tfidf_rows]
       ELSE LET r == IngestCorpus(w, key, f, lfail)
            IN IF ~r.ok
               THEN r
               ELSE [r EXCEPT !.w.datasets[key] =
                        [loaded |-> TRUE, chunks |-> r.chunks, vectorizer |-> r.vectorizer,
                         matrix |-> r.matrix, chunk_mtime |-> r.w.disk[key].chunk_mtime,
                         tfidf_mtime |-> r.w.disk[key].tfidf_mtime]]

\* bootstrap_artifacts, or the first step of /ask for a routed corpus.
Load(key, f, lfail) ==
    /\ LET r == EnsureDataset(World, key, f, lfail)
       IN /\ SetWorld(r.w)
          /\ last' = Last("load", key, 0, r.ok, IF r.ok THEN "done" ELSE "raised", r.err, NoChunk, 0, Ret(r), NoFile, 0)
    /\ UNCHANGED <<rt, hs, aq, rk, mo, req, history, ing, ct, dp>>

\* ---------------------------------------------------- admin moderation
\* POST /admin/submit
Submit(type, key) ==
    /\ Len(pending) < MaxItems
    /\ pending' = Append(pending, [source_type |-> type, key |-> key, status |-> "pending"])
    /\ last' = Last("submit", "none", Len(pending) + 1, TRUE, "ok", "none", NoChunk, 0,
                    NoRet, NoFile, 0)
    /\ UNCHANGED <<srcTable, ckTable, chunks, vec, disk, datasets, rt, hs, aq, rk, mo, req, history, ing, ct, dp>>

\* The corpus whose vector collection and cache entry an approval updates.
TargetOf(type) == IF type = "event" THEN "schedule" ELSE "notices"
\* Every approval projected into the notices table.
TableOfNotices(type) == "notices"

\* The table the source record of an approval goes to.
TableOf(type) ==
    CASE type = "announcement" -> "notices"
      [] type = "event" -> "schedule"
      [] OTHER -> "custom_knowledge"

ApproveResult(w, status, err, chunk_id, src_id) ==
    [w |-> w, status |-> status, err |-> err, chunk_id |-> chunk_id, src_id |-> src_id]

\* approve_pending for an item of type announcement, event or custom_knowledge.
ApproveIndexed(w, i, fail, f, lfail) ==
    LET item == w.pending[i]
        table == TableOf(item.source_type)
        target == TargetOf(item.source_type)
        sid == IF table = "custom_knowledge" THEN NextId(w.ck) ELSE NextId(w.src[table])
        \* 1. the source record, committed
        w1 == IF table = "custom_knowledge"
              THEN [w EXCEPT !.ck = @ \cup {[id |-> sid, key |-> item.key]}]
              ELSE [w EXCEPT !.src[table] =
                        @ \cup {[id |-> sid, key |-> item.key, manual |-> TRUE]}]
        doc_id == IF table = "custom_knowledge"
                  THEN make_doc_id("custom_knowledge", sid, item.key)
                  ELSE make_doc_id(table, item.key, 0)
    IN  \* 2. the chunk row, committed; the unique index on chunk_id may refuse it
        IF \E r \in w1.chunks : r.chunk_id = doc_id
        THEN ApproveResult(w1, "error", "integrity", doc_id, sid)
        ELSE LET w2 == [w1 EXCEPT !.chunks = @ \cup {ChunkRow(doc_id, table, sid)}]
             IN \* 3. encode and upsert
                IF fail # "none"
                THEN ApproveResult(w2, "error", fail, doc_id, sid)
                ELSE LET w3 == [w2 EXCEPT !.vec[target] = @ \cup {doc_id},
                                          !.datasets[target] = NoEntry]
                         \* 4. reload; whatever it raises is logged and dropped
                         w4 == EnsureDataset(w3, target, f, lfail).w
                     IN ApproveResult([w4 EXCEPT !.pending[i].status = "approved"],
                                      "approved", "none", doc_id, sid)

\* POST /admin/approve/{item_id}
ApprovePending(w, i, fail, f, lfail) ==
    IF i \notin DOMAIN w.pending
    THEN ApproveResult(w, "error", "not_found", NoChunk, 0)
    ELSE IF w.pending[i].source_type = "other"
    THEN ApproveResult([w EXCEPT !.pending[i].status = "approved_manually"],
                       "approved_manually", "none", NoChunk, 0)
    ELSE ApproveIndexed(w, i, fail, f, lfail)

\* Source records that approvals created and no ingest has deleted since.
ManualRecords ==
    Cardinality(ckTable) + Cardinality({r \in UNION {srcTable[c] : c \in Corpus} : r.manual})

Approve(i, fail, f, lfail) ==
    /\ ManualRecords < MaxManual
    /\ LET r == ApprovePending(World, i, fail, f, lfail)
       IN /\ SetWorld(r.w)
          /\ last' = Last("approve",
                          IF i \in DOMAIN pending THEN TargetOf(pending[i].source_type)
                          ELSE "none",
                          i, r.status = "approved", r.status, r.err, r.chunk_id, r.src_id,
                          NoRet, NoFile, 0)
    /\ UNCHANGED <<rt, hs, aq, rk, mo, req, history, ing, ct, dp>>

\* reject_pending that also withdraws the item's chunk from the indices.
RejectPendingPurge(w, i) ==
    IF i \in DOMAIN w.pending
    THEN LET H == make_doc_id(TableOf(w.pending[i].source_type), w.pending[i].key, 0)
             t == TargetOf(w.pending[i].source_type)
         IN [w EXCEPT !.pending[i].status = "rejected",
                      !.vec[t] = @ \ {H},
                      !.chunks = {r \in @ : r.chunk_id # H}]
    ELSE w

\* POST /admin/reject/{item_id}
RejectPending(w, i) ==
    IF i \in DOMAIN w.pending
    THEN [w EXCEPT !.pending[i].status = "rejected"]
    ELSE w

Reject(i) ==
    /\ SetWorld(RejectPending(World, i))
    /\ last' = Last("reject", "none", i, TRUE, "rejected", "none", NoChunk, 0,
                    NoRet, NoFile, 0)
    /\ UNCHANGED <<rt, hs, aq, rk, mo, req, history, ing, ct, dp>>

StoreInit ==
    /\ srcTable = [c \in Corpus |-> {}]
    /\ ckTable = {}
    /\ chunks = {}
    /\ vec = [c \in Corpus |-> {}]
    /\ disk = [c \in Corpus |-> NoArtifacts]
    /\ datasets = [c \in Corpus |-> NoEntry]
    /\ pending = <<>>
    /\ last = Last("init", "none", 0, TRUE, "none", "none", NoChunk, 0, NoRet, NoFile, 0)

Init ==
    /\ StoreInit
    /\ rt = 0
    /\ hs = 0
    /\ aq = 0
    /\ rk = 0
    /\ mo = 0
    /\ req = 0
    /\ history = 0
    /\ ing = 0
    /\ ct = 0
    /\ dp = 0

\* --------------------------------------------------------------- router
\* Keys of ROUTER_RULES, in the order the dictionary lists them.
RouterRuleKeys == <<"notices", "rules", "schedule", "courses">>
\* Keys of DATASET_ARTIFACTS: the corpora the service can load.
KnownCorpora == {"notices", "rules", "schedule", "courses", "staff"}
\* Labels a stored classifier may carry; "legacy" is a label of no corpus.
Labels == KnownCorpora \cup {"legacy"}
max_candidates == 2

Perms(S) == {f \in [1..Cardinality(S) -> S] : \A i, j \in DOMAIN f : i # j => f[i] # f[j]}

\* A query as the router sees it: whether it is blank after strip(), the
\* ROUTER_RULES keys one of whose keywords it contains, whether the classifier
\* is absent, raises or answers, and the answer (classes_ and the
\* probabilities, in units of 1/ProbScale, summing to one).
Distributions(n) ==
    {p \in [1..n -> 0..ProbScale] :
        (n = 0) \/ (p[1] + (IF n > 1 THEN p[2] ELSE 0) + (IF n > 2 THEN p[3] ELSE 0)
                    = ProbScale)}
ClassLists == UNION {{f \in [1..n -> Labels] : NoDup(f)} : n \in 0..MaxClasses}
RouteQueries ==
    {[blank |-> TRUE, hits |-> {}, model |-> "none", classes |-> <<>>,
      probabilities |-> <<>>]}
    \cup {[blank |-> FALSE, hits |-> h, model |-> m, classes |-> <<>>,
           probabilities |-> <<>>] :
             h \in SUBSET Range(RouterRuleKeys), m \in {"none", "raises", "ok"}}
    \cup UNION {{[blank |-> FALSE, hits |-> h, model |-> "ok", classes |-> cl,
                  probabilities |-> p] :
                    h \in SUBSET Range(RouterRuleKeys), p \in Distributions(Len(cl))} :
                 cl \in ClassLists \ {<<>>}}

\* A fallback that ignores the keywords of the query.
keyword_route_notices(q) == <<"notices">>

\* _keyword_route: the ROUTER_RULES keys with a keyword in the query, in the
\* order of the dictionary, or notices when there is none.
keyword_route(q) ==
    LET hits == SelectSeq(RouterRuleKeys, LAMBDA d : d \in q.hits)
    IN IF hits = <<>> THEN <<"notices">> ELSE hits

\* np.argsort(probabilities)[::-1]: descending, equal values in descending
\* index order (the reverse of a stable ascending sort).
ArgsortDesc(p) ==
    CHOOSE o \in Perms(DOMAIN p) :
        \A i, j \in DOMAIN o :
            i < j => \/ p[o[i]] > p[o[j]]
                     \/ (p[o[i]] = p[o[j]] /\ o[i] > o[j])

\* The loop over order[:max_candidates]; min_probability is 0.25.
RECURSIVE SelectFrom(_, _, _, _)
SelectFrom(q, order, i, selected) ==
    IF i > Len(order) \/ i > max_candidates
    THEN selected
    ELSE LET label == q.classes[order[i]]
             prob == q.probabilities[order[i]]
             top_prob == q.probabilities[order[1]]
         IN SelectFrom(q, order, i + 1,
                IF selected = <<>> THEN <<label>>
                ELSE IF 4 * prob >= ProbScale \/ 5 * prob >= 3 * top_prob
                THEN Append(selected, label)
                ELSE selected)

\* The final loop without the test that a label is a key of ROUTER_RULES.
RECURSIVE UniqueAny(_, _)
UniqueAny(selected, unique) ==
    IF selected = <<>> THEN unique
    ELSE UniqueAny(Tail(selected),
                   IF Head(selected) \notin Range(unique)
                   THEN Append(unique, Head(selected)) ELSE unique)

\* "Ensure results are unique and valid."
RECURSIVE UniqueValid(_, _)
UniqueValid(selected, unique) ==
    IF selected = <<>> THEN unique
    ELSE UniqueValid(Tail(selected),
                     IF Head(selected) \in Range(RouterRuleKeys)
                        /\ Head(selected) \notin Range(unique)
                     THEN Append(unique, Head(selected)) ELSE unique)

route_query(q) ==
    IF q.blank THEN <<"notices">>
    ELSE IF q.model = "none" THEN keyword_route(q)
    ELSE IF q.model = "raises" THEN keyword_route(q)
    ELSE IF Len(q.probabilities) = 0 THEN keyword_route(q)
    ELSE LET picked == SelectFrom(q, ArgsortDesc(q.probabilities), 1, <<>>)
             selected == IF picked = <<>> THEN keyword_route(q) ELSE picked
             unique == UniqueValid(selected, <<>>)
         IN IF unique = <<>> THEN keyword_route(q) ELSE unique

\* One call of route_query.
Route ==
    /\ ~rt.called
    /\ rt' = [rt EXCEPT !.called = TRUE, !.result = route_query(rt.q)]
    /\ UNCHANGED <<srcTable, ckTable, chunks, vec, disk, datasets, pending, last, hs, aq, rk, mo, req, history, ing, ct, dp>>

InitRoute ==
    /\ StoreInit
    /\ rk = 0
    /\ mo = 0
    /\ req = 0
    /\ history = 0
    /\ ing = 0
    /\ ct = 0
    /\ dp = 0
    /\ rt \in [q : RouteQueries, called : {FALSE}, result : {<<>>}]
    /\ hs = 0
    /\ aq = 0

NextRoute == Route

SpecRoute == InitRoute /\ [][NextRoute]_vars

\* ------------------------------------------------- /ask: date filter
DEFAULT_TOP_K == 10
NaT == -1
\* Corpora whose hits the date range filters.
DateFiltered == {"notices", "schedule", "rules"}

\* published_at of a hit: "" (hybrid_search_with_meta fills a missing column
\* with it), a string that is no date, or a date with a time of day.
PublishedValues ==
    {<<"missing", 0, 0>>, <<"bad", 0, 0>>}
    \cup {<<"date", d, t>> : d \in 0..MaxDay, t \in 0..(TicksPerDay - 1)}

\* extract_date_range_from_query: None, or a (start, end) pair of days.
NoRange == <<"none", 0, 0>>
DateRanges == {NoRange} \cup {<<"range", a, b>> : a, b \in 0..MaxDay}

\* pd.to_datetime(value, errors='coerce'): the instant, or NaT.
to_datetime(v) == IF v[1] = "date" THEN v[2] * TicksPerDay + v[3] ELSE NaT

\* A 'YYYY-MM-DD' string compared with a datetime column: midnight of the day.
Midnight(day) == day * TicksPerDay

\* The filter with the rows that have no date kept.
DateFilterKeepNaT(hits, range) ==
    SelectSeq(hits, LAMBDA r :
        \/ to_datetime(r.published_at) = NaT
        \/ /\ to_datetime(r.published_at) >= Midnight(range[2])
           /\ to_datetime(r.published_at) <= Midnight(range[3]))

\* hits[(_temp_date >= start) & (_temp_date <= end)]; a comparison with NaT
\* is False.
DateFilter(hits, range) ==
    SelectSeq(hits, LAMBDA r :
        /\ to_datetime(r.published_at) # NaT
        /\ to_datetime(r.published_at) >= Midnight(range[2])
        /\ to_datetime(r.published_at) <= Midnight(range[3]))

\* One pass of the loop over the route: the hits of a corpus after the date
\* filter, each tagged with its dataset.
FrameOf(item, range) ==
    LET kept == IF range # NoRange /\ item.hits # <<>> /\ item.dataset \in DateFiltered
                THEN DateFilter(item.hits, range)
                ELSE item.hits
    IN [i \in 1..Len(kept) |->
            [published_at |-> kept[i].published_at, dataset |-> item.dataset]]

RECURSIVE Concat(_, _)
Concat(route, range) ==
    IF route = <<>> THEN <<>>
    ELSE FrameOf(Head(route), range) \o Concat(Tail(route), range)

\* merged.head(DEFAULT_TOP_K); the re-ranking before it only reorders rows.
AskRetrieve(route, range) ==
    LET merged == Concat(route, range)
    IN SubSeq(merged, 1, IF Len(merged) < DEFAULT_TOP_K THEN Len(merged) ELSE DEFAULT_TOP_K)

HitLists == UNION {[1..n -> [published_at : PublishedValues]] : n \in 0..MaxHits}
\* The route and, per routed corpus, what hybrid_search_with_meta returned.
RoutedHits ==
    {r \in UNION {[1..n -> [dataset : KnownCorpora, hits : HitLists]] : n \in 1..MaxRoute} :
        \A i, j \in DOMAIN r : i # j => r[i].dataset # r[j].dataset}

Ask ==
    /\ ~aq.called
    /\ aq' = [aq EXCEPT !.called = TRUE, !.rows = AskRetrieve(aq.route, aq.range)]
    /\ UNCHANGED <<srcTable, ckTable, chunks, vec, disk, datasets, pending, last, rt, hs, rk, mo, req, history, ing, ct, dp>>

InitAsk ==
    /\ StoreInit
    /\ rk = 0
    /\ mo = 0
    /\ req = 0
    /\ history = 0
    /\ ing = 0
    /\ ct = 0
    /\ dp = 0
    /\ rt = 0
    /\ hs = 0
    /\ aq \in [route : RoutedHits, range : DateRanges, called : {FALSE}, rows : {<<>>}]

NextAsk == Ask

SpecAsk == InitAsk /\ [][NextAsk]_vars

\* ------------------------------------------------------ hybrid_search
\* HYBRID_ALPHA = 0.4, in tenths.
AlphaTenths == 4
Absent == -1
Majors == {"stat", "math"}
ChunkKeys == 1..MaxChunks

\* A call of hybrid_search on one corpus.  Chunk i has metadata major[i]; it is
\* in the vector collection with similarity dense[i] (1 - distance) unless
\* dense[i] = Absent, and it is row i of the chunk table and of the sparse
\* matrix with cosine similarity sparse[i] unless sparse[i] = Absent.
SearchCalls ==
    [major : [ChunkKeys -> Majors],
     dense : [ChunkKeys -> {Absent} \cup 0..MaxScore],
     sparse : [ChunkKeys -> {Absent} \cup 0..MaxScore],
     where_filter : {"none", "stat"},
     top_k : 1..MaxK]

\* The subsets of S with n elements (all of S when it has fewer) that hold the
\* highest scores; equal scores leave the choice to the store or the sort.
TopSets(S, score, n) ==
    {T \in SUBSET S :
        /\ Cardinality(T) = (IF Cardinality(S) < n THEN Cardinality(S) ELSE n)
        /\ \A a \in T, b \in S \ T : score[a] >= score[b]}

\* collection.query(n_results=limit, where=where_filter)
VecQuery(q, limit) ==
    TopSets({i \in ChunkKeys : /\ q.dense[i] # Absent
                               /\ (q.where_filter = "none" \/ q.major[i] = q.where_filter)},
            q.dense, limit)

\* np.argsort(sparse_sims)[::-1][:limit] over the rows of the matrix
SparseTop(q, limit) == TopSets({i \in ChunkKeys : q.sparse[i] # Absent}, q.sparse, limit)

\* The candidates as the union whether or not a filter was given.
CandidateIdsUnion(where_filter, vec_ids, sparse_ids) == vec_ids \cup sparse_ids

\* if where_filter: candidate_ids = set(vec_scores.keys())
CandidateIds(where_filter, vec_ids, sparse_ids) ==
    IF where_filter # "none" THEN vec_ids ELSE vec_ids \cup sparse_ids

\* The fusion with the sparse score counted against a candidate.
HybridScoreSparsePenalty(q, vec_ids, sparse_ids, i) ==
    AlphaTenths * (IF i \in vec_ids THEN q.dense[i] ELSE 0)
    - (10 - AlphaTenths) * (IF i \in sparse_ids THEN q.sparse[i] ELSE 0)

\* final_score = alpha * v_score + (1 - alpha) * s_score, in tenths
HybridScore(q, vec_ids, sparse_ids, i) ==
    AlphaTenths * (IF i \in vec_ids THEN q.dense[i] ELSE 0)
    + (10 - AlphaTenths) * (IF i \in sparse_ids THEN q.sparse[i] ELSE 0)

\* hybrid_results.sort(key=score, reverse=True): the candidates come out of a
\* set, so candidates of equal score may come in either order.
RankedOrders(cands, score) ==
    {o \in Perms(cands) : \A i, j \in DOMAIN o : i < j => score[o[i]] >= score[o[j]]}

\* The rows hybrid_search returns for the dense hits, sparse hits and ranking
\* chosen: <<chunk, hybrid_score>>.
SearchRows(q, vec_ids, sparse_top, order) ==
    LET sparse_ids == {i \in sparse_top : q.sparse[i] > 0}
        top_k == IF Len(order) < q.top_k THEN Len(order) ELSE q.top_k
        top_ids == SubSeq(order, 1, top_k)
        top_scores == [j \in 1..top_k |-> HybridScore(q, vec_ids, sparse_ids, top_ids[j])]
        valid_ids == SelectSeq(top_ids, LAMBDA i : q.sparse[i] # Absent)
    IN [j \in 1..Len(valid_ids) |-> <<valid_ids[j], top_scores[j]>>]

\* The columns of the cached chunk table.  A table without rows is the frame
\* an ingest that built no chunk returned (pd.DataFrame([]), handed back by
\* _persist_chunks before anything is written): it has no columns.
ChunkColumns == {"chunk_id", "chunk_text", "title", "topics", "published_at", "url", "source"}
TableColumns(q) == IF \A i \in ChunkKeys : q.sparse[i] = Absent THEN {} ELSE ChunkColumns

\* hybrid_search_with_meta: out["title"] = out["chunk_text"].apply(...) on the
\* frame hybrid_search returned, which has the columns of the chunk table.
with_meta_error(columns) == IF "chunk_text" \in columns THEN "none" ELSE "KeyError"

\* /ask: the search runs outside any try; what it raises ends the request.
AskStatusOf(error) == IF error = "none" THEN 200 ELSE 500

HybridSearch ==
    /\ ~hs.called
    /\ IF \A i \in ChunkKeys : hs.q.sparse[i] = Absent
       THEN hs' = [hs EXCEPT !.called = TRUE,
                             !.error = with_meta_error(TableColumns(hs.q)),
                             !.status = AskStatusOf(with_meta_error(TableColumns(hs.q)))]
       ELSE \E vec_ids \in VecQuery(hs.q, hs.q.top_k * 3),
               sparse_top \in SparseTop(hs.q, hs.q.top_k * 3) :
              LET sparse_ids == {i \in sparse_top : hs.q.sparse[i] > 0}
                  cands == CandidateIds(hs.q.where_filter, vec_ids, sparse_ids)
                  score == [i \in ChunkKeys |-> HybridScore(hs.q, vec_ids, sparse_ids, i)]
              IN \E order \in RankedOrders(cands, score) :
                    hs' = [hs EXCEPT !.called = TRUE, !.vec_ids = vec_ids,
                                     !.sparse_ids = sparse_ids,
                                     !.error = with_meta_error(TableColumns(hs.q)),
                                     !.status = AskStatusOf(with_meta_error(TableColumns(hs.q))),
                                     !.rows = SearchRows(hs.q, vec_ids, sparse_top, order)]
    /\ UNCHANGED <<srcTable, ckTable, chunks, vec, disk, datasets, pending, last, rt, aq, rk, mo, req, history, ing, ct, dp>>

InitSearch ==
    /\ StoreInit
    /\ rk = 0
    /\ mo = 0
    /\ req = 0
    /\ history = 0
    /\ ing = 0
    /\ ct = 0
    /\ dp = 0
    /\ rt = 0
    /\ aq = 0
    /\ hs \in [q : SearchCalls, called : {FALSE}, vec_ids : {{}}, sparse_ids : {{}},
             rows : {<<>>}, error : {"none"}, status : {0}]

NextSearch == HybridSearch

SpecSearch == InitSearch /\ [][NextSearch]_vars

\* ------------------------------------------------- /ask: re-ranking
\* RECENCY_WEIGHT = 0.4, in tenths.
RecencyTenths == 4
\* A hybrid_score that is NaN.
NaN == -100

\* hybrid_score in tenths; 1 - distance is negative for a distance above 1.
HybridValues == {NaN} \cup (-1)..MaxHybrid

\* The merged frame: pd.concat of the hits of the routed corpora.
MergedFrames ==
    UNION {[1..n -> [hybrid_score : HybridValues, published_at : PublishedValues]] :
             n \in 1..MaxMerged}

\* A score as a fraction n/d with d > 0.
Frac(n, d) == [n |-> n, d |-> d]
FracLeq(a, b) == a.n * b.d <= b.n * a.d
MinOf(S) == CHOOSE m \in S : \A x \in S : m <= x

\* (hybrid_score - min) / (max - min), or 1.0 when max = min
NormHybrid(h, min_hybrid, max_hybrid) ==
    IF max_hybrid > min_hybrid THEN Frac(h - min_hybrid, max_hybrid - min_hybrid)
    ELSE Frac(1, 1)

\* The timestamp of a row with the epoch for a row that has no date.
SortTimestampEpoch(sort_date, min_date) == IF sort_date # NaT THEN sort_date ELSE 0

\* x.timestamp() if pd.notnull(x) else min_date
SortTimestamp(sort_date, min_date) == IF sort_date # NaT THEN sort_date ELSE min_date

\* norm_recency of a row; valid_dates are the dates of the frame that parse.
NormRecency(sort_date, valid_dates) ==
    IF valid_dates # {}
    THEN LET min_date == MinOf(valid_dates)
             max_date == MaxOf(valid_dates)
         IN IF max_date > min_date
            THEN Frac(SortTimestamp(sort_date, min_date) - min_date, max_date - min_date)
            ELSE Frac(1, 1)
    ELSE Frac(0, 1)

\* (1 - RECENCY_WEIGHT) * norm_hybrid + RECENCY_WEIGHT * norm_recency
FinalScore(nh, nr) ==
    Frac((10 - RecencyTenths) * nh.n * nr.d + RecencyTenths * nr.n * nh.d,
         10 * nh.d * nr.d)

\* The frame after dropna(subset=["hybrid_score"]) with the three score
\* columns; row keeps the position the row had in the merged frame.
Scored(merged) ==
    LET idx == {i \in DOMAIN merged : merged[i].hybrid_score # NaN}
        hyb == {merged[i].hybrid_score : i \in idx}
        valid_dates == {to_datetime(merged[i].published_at) : i \in idx} \ {NaT}
    IN {[row |-> i,
         hybrid_score |-> merged[i].hybrid_score,
         sort_date |-> to_datetime(merged[i].published_at),
         norm_hybrid |-> NormHybrid(merged[i].hybrid_score, MinOf(hyb), MaxOf(hyb)),
         norm_recency |-> NormRecency(to_datetime(merged[i].published_at), valid_dates),
         final_score |-> FinalScore(
             NormHybrid(merged[i].hybrid_score, MinOf(hyb), MaxOf(hyb)),
             NormRecency(to_datetime(merged[i].published_at), valid_dates))] : i \in idx}

\* merged.sort_values(by="final_score", ascending=False): rows of equal score
\* come in the order the sort leaves them.
SortedByFinal(rows) ==
    {o \in Perms(rows) : \A i, j \in DOMAIN o : i < j => FracLeq(o[j].final_score, o[i].final_score)}

HeadRows(s, n) == SubSeq(s, 1, IF Len(s) < n THEN Len(s) ELSE n)

\* ask, lines 574-617, on one merged frame.
Rerank ==
    /\ ~rk.called
    /\ \E o \in SortedByFinal(Scored(rk.merged)) :
          rk' = [rk EXCEPT !.called = TRUE, !.out = HeadRows(o, DEFAULT_TOP_K)]
    /\ UNCHANGED <<srcTable, ckTable, chunks, vec, disk, datasets, pending, last, rt, hs, aq, mo, req, history, ing, ct, dp>>

InitRank ==
    /\ StoreInit
    /\ rt = 0
    /\ hs = 0
    /\ aq = 0
    /\ rk \in [merged : MergedFrames, called : {FALSE}, out : {<<>>}]
    /\ mo = 0
    /\ req = 0
    /\ history = 0
    /\ ing = 0
    /\ ct = 0
    /\ dp = 0

NextRank == Rerank

SpecRank == InitRank /\ [][NextRank]_vars

\* --------------------------------------------- fusion, one score raised
\* vec_scores and sparse_scores as hybrid_search holds them before the
\* fusion: dense[i] = Absent when i is no dense hit, sparse[i] = 0 when i has
\* no entry in sparse_scores (entries are positive).
FusionCalls ==
    [dense : [ChunkKeys -> {Absent} \cup 0..MaxScore],
     sparse : [ChunkKeys -> 0..MaxSparse],
     where_filter : {"none", "stat"},
     top_k : 1..MaxK]

\* hybrid_search, lines 121-144: the ids of top_results in order.
TopIds(q) ==
    LET vec_ids == {i \in ChunkKeys : q.dense[i] # Absent}
        sparse_ids == {i \in ChunkKeys : q.sparse[i] > 0}
        cands == CandidateIds(q.where_filter, vec_ids, sparse_ids)
        score == [i \in ChunkKeys |-> HybridScore(q, vec_ids, sparse_ids, i)]
    IN {HeadRows(o, q.top_k) : o \in RankedOrders(cands, score)}

\* The frames whose hybrid scores are numbers.
ScoredFrames ==
    UNION {[1..n -> [hybrid_score : 0..MaxHybrid, published_at : PublishedValues]] :
             n \in 1..MaxMerged}

\* One call of the fusion and the same call with the sparse score of
\* candidate x raised.
SparseInputs ==
    {i \in [kind : {"sparse"}, q : FusionCalls, x : ChunkKeys, to : 1..MaxSparse] :
        i.to > i.q.sparse[i.x]}

\* One merged frame and the same frame with a later date in row x.
DateInputs ==
    {i \in [kind : {"date"}, q : ScoredFrames, x : 1..MaxMerged,
            to : {p \in PublishedValues : p[1] = "date"}] :
        /\ i.x \in DOMAIN i.q
        /\ to_datetime(i.q[i.x].published_at) # NaT
        /\ to_datetime(i.to) > to_datetime(i.q[i.x].published_at)}

\* The fusion of hybrid_search on both calls.
RaiseSparse ==
    /\ ~mo.called
    /\ mo.i.kind = "sparse"
    /\ \E b \in TopIds(mo.i.q),
          a \in TopIds([mo.i.q EXCEPT !.sparse[mo.i.x] = mo.i.to]) :
          mo' = [mo EXCEPT !.called = TRUE, !.before = b, !.after = a]
    /\ UNCHANGED <<srcTable, ckTable, chunks, vec, disk, datasets, pending, last, rt, hs, aq, rk, req, history, ing, ct, dp>>

\* The re-ranking of /ask on both frames.
LaterDate ==
    /\ ~mo.called
    /\ mo.i.kind = "date"
    /\ \E b \in SortedByFinal(Scored(mo.i.q)),
          a \in SortedByFinal(Scored([mo.i.q EXCEPT ![mo.i.x].published_at = mo.i.to])) :
          mo' = [mo EXCEPT !.called = TRUE,
                           !.before = HeadRows(b, DEFAULT_TOP_K),
                           !.after = HeadRows(a, DEFAULT_TOP_K)]
    /\ UNCHANGED <<srcTable, ckTable, chunks, vec, disk, datasets, pending, last, rt, hs, aq, rk, req, history, ing, ct, dp>>

InitMono ==
    /\ StoreInit
    /\ rt = 0
    /\ hs = 0
    /\ aq = 0
    /\ rk = 0
    /\ \/ mo \in [i : SparseInputs, called : {FALSE}, before : {<<>>}, after : {<<>>}]
       \/ mo \in [i : DateInputs, called : {FALSE}, before : {<<>>}, after : {<<>>}]
    /\ req = 0
    /\ history = 0
    /\ ing = 0
    /\ ct = 0
    /\ dp = 0

NextMono == RaiseSparse \/ LaterDate

SpecMono == InitMono /\ [][NextMono]_vars

\* ------------------------------------------- the service under load
\* /ask requests run concurrently: the handler is a coroutine that yields at
\* every await, _ensure_dataset runs in a worker thread, and a bulk ingest
\* runs in a process of its own.  Each action below is one step that the
\* others cannot interrupt; a file is written or read in one step.
Reqs == 1..MaxReq
Sessions == 1..MaxSessions
Chars == {" ", "a"}
Questions == UNION {[1..n -> Chars] : n \in 0..MaxQ}

\* The source CSV the crawler has left: it holds one notice at first and one
\* more after each ingest run, up to MaxServeRows.
ServeFile ==
    LET n == IF ing.runs + 1 < MaxServeRows THEN ing.runs + 1 ELSE MaxServeRows
    IN [exists |-> TRUE, rows |-> [i \in 1..n |-> i]]

\* question with its leading blanks kept (and its trailing ones dropped).
RECURSIVE RStrip(_)
RStrip(q) ==
    IF q = <<>> THEN <<>>
    ELSE IF q[Len(q)] = " " THEN RStrip(SubSeq(q, 1, Len(q) - 1)) ELSE q

\* The question taken as it was sent.
StripNothing(q) == q

\* str.strip()
RECURSIVE Strip(_)
Strip(q) ==
    IF q = <<>> THEN <<>>
    ELSE IF Head(q) = " " THEN Strip(Tail(q)) ELSE RStrip(q)

\* st_mtime of a file written now: later than every mtime of the artifacts.
Clock(d) == 1 + MaxOf({d.chunk_mtime, d.tfidf_mtime})

IdleReq ==
    [pc |-> "idle", question |-> <<>>, session |-> 0, order |-> 0, status |-> 0,
     key |-> "none", chunk_mtime |-> NoMtime, tfidf_mtime |-> NoMtime,
     chunks |-> <<>>, matrix |-> <<>>]

Arrived == {r \in Reqs : req[r].pc # "idle"}

\* ask, lines 478-506: the request is read, a blank question is refused, the
\* query is routed.  Requests arrive in the order of req[r].order.
AskArrive(r, question, session) ==
    /\ req[r].pc = "idle"
    /\ LET raw_query == Strip(question)
       IN req' = [req EXCEPT ![r] =
                    IF raw_query = <<>>
                    THEN [@ EXCEPT !.pc = "done", !.status = 400, !.question = question,
                                   !.session = session,
                                   !.order = Cardinality(Arrived) + 1]
                    ELSE [@ EXCEPT !.pc = "check", !.question = question,
                                   !.session = session, !.key = "notices",
                                   !.order = Cardinality(Arrived) + 1]]
    /\ UNCHANGED <<srcTable, ckTable, chunks, vec, disk, datasets, pending, last, rt, hs, aq, rk, mo, history, ing, ct, dp>>

\* _ensure_dataset, lines 127-132: stat both artifacts, look the entry up.
EnsureCheck(r) ==
    /\ req[r].pc = "check"
    /\ LET d == disk[req[r].key]
           cache == datasets[req[r].key]
       IN req' = [req EXCEPT ![r] =
                    IF cache.loaded /\ cache.chunk_mtime = d.chunk_mtime
                                    /\ cache.tfidf_mtime = d.tfidf_mtime
                    THEN [@ EXCEPT !.pc = "llm", !.chunks = cache.chunks,
                                   !.matrix = cache.matrix]
                    ELSE [@ EXCEPT !.pc = "load", !.chunk_mtime = d.chunk_mtime,
                                   !.tfidf_mtime = d.tfidf_mtime]]
    /\ UNCHANGED <<srcTable, ckTable, chunks, vec, disk, datasets, pending, last, rt, hs, aq, rk, mo, history, ing, ct, dp>>

\* _ensure_dataset, lines 134-146: read the chunk file when both artifacts
\* exist, else run the loader (the ingest of the corpus from CSV f) and stat
\* the artifacts again.
EnsureLoad(r) ==
    /\ req[r].pc = "load"
    /\ LET key == req[r].key
           d == disk[key]
       IN IF d.chunk_exists /\ d.tfidf_exists
          THEN /\ req' = [req EXCEPT ![r].pc = "read_tfidf", ![r].chunks = d.chunk_ids]
               /\ UNCHANGED <<srcTable, ckTable, chunks, vec, disk>>
          ELSE LET r0 == IngestCorpus(World, key, ServeFile, "none")
                   w == IF r0.ok /\ r0.chunks # <<>>
                        THEN [r0.w EXCEPT !.disk[key].chunk_mtime = Clock(d),
                                          !.disk[key].tfidf_mtime = Clock(d) + 1]
                        ELSE r0.w
               IN /\ srcTable' = w.src
                  /\ ckTable' = w.ck
                  /\ chunks' = w.chunks
                  /\ vec' = w.vec
                  /\ disk' = w.disk
                  /\ req' = [req EXCEPT ![r] =
                               IF r0.ok
                               THEN [@ EXCEPT !.pc = "store", !.chunks = r0.chunks,
                                              !.matrix = r0.matrix,
                                              !.chunk_mtime = w.disk[key].chunk_mtime,
                                              !.tfidf_mtime = w.disk[key].tfidf_mtime]
                               ELSE [@ EXCEPT !.pc = "done", !.status = 500,
                                              !.key = "none"]]
    /\ UNCHANGED <<datasets, pending, last, rt, hs, aq, rk, mo, history, ing, ct, dp>>

\* load_tfidf(key), line 141
EnsureReadTfidf(r) ==
    /\ req[r].pc = "read_tfidf"
    /\ req' = [req EXCEPT ![r].pc = "store", ![r].matrix = disk[req[r].key].tfidf_rows]
    /\ UNCHANGED <<srcTable, ckTable, chunks, vec, disk, datasets, pending, last, rt, hs, aq, rk, mo, history, ing, ct, dp>>

\* _ensure_dataset, lines 153-161: the entry is replaced and returned; the
\* retrieval and the context are computed from what was returned.
EnsureStore(r) ==
    /\ req[r].pc = "store"
    /\ datasets' = [datasets EXCEPT ![req[r].key] =
                      [loaded |-> TRUE, chunks |-> req[r].chunks, vectorizer |-> TRUE,
                       matrix |-> req[r].matrix, chunk_mtime |-> req[r].chunk_mtime,
                       tfidf_mtime |-> req[r].tfidf_mtime]]
    /\ req' = [req EXCEPT ![r].pc = "llm"]
    /\ UNCHANGED <<srcTable, ckTable, chunks, vec, disk, pending, last, rt, hs, aq, rk, mo, history, ing, ct, dp>>

\* generate_langchain_answer: when the model has answered, the question and
\* the answer are appended to the history of the session.
AskAnswer(r) ==
    /\ req[r].pc = "llm"
    /\ history' = [history EXCEPT ![req[r].session] =
                      @ \o <<[role |-> "human", r |-> r], [role |-> "ai", r |-> r]>>]
    /\ req' = [req EXCEPT ![r] = [IdleReq EXCEPT !.pc = "done", !.status = 200,
                                                 !.question = req[r].question,
                                                 !.session = req[r].session,
                                                 !.order = req[r].order]]
    /\ UNCHANGED <<srcTable, ckTable, chunks, vec, disk, datasets, pending, last, rt, hs, aq, rk, mo, ing, ct, dp>>

\* ingest_notices, lines 209-252, in the ingest process: the source rows are
\* replaced and the chunk rows are saved.
IngestStart ==
    /\ ing.pc = "idle"
    /\ ing.runs < MaxIngestRuns
    /\ LET f == ServeFile
           df == BuildChunks("notices", f.rows)
           kept == DeleteCorpusChunks(chunks, "notices")
       IN /\ srcTable' = [srcTable EXCEPT !["notices"] = ReplaceSources(@, "notices", f.rows)]
          /\ IF df # <<>> /\ SaveChunksConflict(kept, df)
             THEN /\ chunks' = kept
                  /\ ing' = [ing EXCEPT !.runs = @ + 1]
             ELSE /\ chunks' = SaveChunksToSqlite(kept, df, "notices")
                  /\ ing' = [ing EXCEPT !.pc = "upsert", !.ids = ChunkIds(df)]
    /\ UNCHANGED <<ckTable, vec, disk, datasets, pending, last, rt, hs, aq, rk, mo, req, history, ct, dp>>

\* _persist_chunks, lines 76-106
IngestUpsert ==
    /\ ing.pc = "upsert"
    /\ IF ing.ids = <<>>
       THEN /\ ing' = [ing EXCEPT !.pc = "idle", !.runs = @ + 1]
            /\ UNCHANGED vec
       ELSE /\ vec' = [vec EXCEPT !["notices"] =
                          DeleteObsolete(@, Range(ing.ids)) \cup Range(ing.ids)]
            /\ ing' = [ing EXCEPT !.pc = "write_chunks"]
    /\ UNCHANGED <<srcTable, ckTable, chunks, disk, datasets, pending, last, rt, hs, aq, rk, mo, req, history, ct, dp>>

\* _persist_chunks, lines 108-118: to_parquet(chunk_path)
IngestWriteChunks ==
    /\ ing.pc = "write_chunks"
    /\ disk' = [disk EXCEPT !["notices"].chunk_exists = TRUE,
                            !["notices"].chunk_ids = ing.ids,
                            !["notices"].chunk_mtime = Clock(disk["notices"])]
    /\ ing' = [ing EXCEPT !.pc = "train"]
    /\ UNCHANGED <<srcTable, ckTable, chunks, vec, datasets, pending, last, rt, hs, aq, rk, mo, req, history, ct, dp>>

\* _persist_chunks, line 120: train_tfidf fits the model and dumps it
IngestWriteTfidf ==
    /\ ing.pc = "train"
    /\ disk' = [disk EXCEPT !["notices"].tfidf_exists = TRUE,
                            !["notices"].tfidf_rows = ing.ids,
                            !["notices"].tfidf_mtime = Clock(disk["notices"])]
    /\ ing' = [ing EXCEPT !.pc = "idle", !.runs = @ + 1, !.ids = <<>>]
    /\ UNCHANGED <<srcTable, ckTable, chunks, vec, datasets, pending, last, rt, hs, aq, rk, mo, req, history, ct, dp>>

InitServe ==
    /\ StoreInit
    /\ rt = 0
    /\ hs = 0
    /\ aq = 0
    /\ rk = 0
    /\ mo = 0
    /\ req = [r \in Reqs |-> IdleReq]
    /\ history = [s \in Sessions |-> <<>>]
    /\ ing = [pc |-> "idle", runs |-> 0, ids |-> <<>>]
    /\ ct = 0
    /\ dp = 0

NextServe ==
    \/ \E r \in Reqs, q \in Questions, s \in Sessions : AskArrive(r, q, s)
    \/ \E r \in Reqs : EnsureCheck(r)
    \/ \E r \in Reqs : EnsureLoad(r)
    \/ \E r \in Reqs : EnsureReadTfidf(r)
    \/ \E r \in Reqs : EnsureStore(r)
    \/ \E r \in Reqs : AskAnswer(r)
    \/ IngestStart
    \/ IngestUpsert
    \/ IngestWriteChunks
    \/ IngestWriteTfidf

SpecServe == InitServe /\ [][NextServe]_vars

\* --------------------------------------------------------- notice sync
\* scripts/update_notices.py: the crawler hands its rows to sync_notices.  The
\* detail URL of a crawled notice is identified with its key; a notice an
\* approval created has no URL.
get_existing_notice_urls(w) == {p.key : p \in {x \in w.src["notices"] : ~x.manual}}

filter_new_rows(incoming, existing_urls) ==
    SelectSeq(incoming, LAMBDA k : k \notin existing_urls)

\* to_sql(..., if_exists="append") of the new notices: the rows get the next
\* primary keys in order.
SavedNotices(w, new_rows) ==
    {[id |-> MaxOf({r.id : r \in w.src["notices"]}) + i, key |-> new_rows[i],
      manual |-> FALSE] : i \in 1..Len(new_rows)}

\* build_notice_chunks over the new rows, then the notice_id of each chunk
\* looked up by URL among the saved notices; a chunk without one is dropped.
GeneratedChunks(new_rows, saved) ==
    LET nonblank == SelectSeq(new_rows, LAMBDA k : k # 0)
    IN [i \in 1..Len(nonblank) |->
            [chunk_id |-> make_chunk_id(make_doc_id("notices", nonblank[i], 0), 0),
             parent |-> IF \E p \in saved : p.key = nonblank[i]
                        THEN (CHOOSE p \in saved : p.key = nonblank[i]).id
                        ELSE NULL]]

\* save_chunks_to_db: chunks with a parent whose chunk_id the table lacks.
save_chunks_to_db(table, generated) ==
    LET to_save == SelectSeq(generated, LAMBDA g : g.parent # NULL)
        fresh == SelectSeq(to_save,
                           LAMBDA g : \A r \in table : r.chunk_id # g.chunk_id)
    IN table \cup {ChunkRow(fresh[i].chunk_id, "notices", fresh[i].parent) :
                        i \in 1..Len(fresh)}

\* The chunk ids of Chunk JOIN Notice, in the order the query returns them.
JoinedChunkIds(w) ==
    LET ids == {r.chunk_id : r \in {x \in w.chunks :
                    x.notice_id # NULL /\ \E p \in w.src["notices"] : p.id = x.notice_id}}
    IN CHOOSE s \in Perms(ids) : TRUE

\* reindex_from_db("notices")
reindex_from_db(w, fail) ==
    IF JoinedChunkIds(w) = <<>>
    THEN [w |-> w, ok |-> TRUE, err |-> "none",
          chunks |-> <<>>, vectorizer |-> FALSE, matrix |-> <<>>]
    ELSE PersistChunks(w, "notices", JoinedChunkIds(w), fail)

sync_notices(w, incoming, fail) ==
    LET new_rows == filter_new_rows(incoming, get_existing_notice_urls(w))
    IN IF new_rows = <<>>
       THEN [w |-> w, ok |-> TRUE, err |-> "none",
             chunks |-> <<>>, vectorizer |-> FALSE, matrix |-> <<>>]
       ELSE IF ~NoDup(new_rows)
       THEN Raised(w, "integrity")
       ELSE LET saved == SavedNotices(w, new_rows)
                w1 == [w EXCEPT !.src["notices"] = @ \cup saved]
                w2 == [w1 EXCEPT !.chunks =
                          save_chunks_to_db(@, GeneratedChunks(new_rows, saved))]
            IN reindex_from_db(w2, fail)

Sync(incoming, fail) ==
    /\ LET r == sync_notices(World, incoming, fail)
       IN /\ SetWorld(r.w)
          /\ last' = Last("sync", "notices", 0, r.ok, IF r.ok THEN "done" ELSE "raised",
                          r.err, NoChunk, 0, Ret(r),
                          [exists |-> TRUE, rows |-> incoming], 0)
    /\ UNCHANGED <<rt, hs, aq, rk, mo, req, history, ing, ct, dp>>

\* What a call of _ensure_dataset meets: the environment of the loader when
\* the call gets as far as running it, nothing otherwise.
EnsureEnvs(key, dropped) ==
    IF \/ disk[key].chunk_exists /\ disk[key].tfidf_exists
       \/ (~dropped /\ datasets[key].loaded
              /\ datasets[key].chunk_mtime = disk[key].chunk_mtime
              /\ datasets[key].tfidf_mtime = disk[key].tfidf_mtime)
    THEN {[f |-> NoFile, fail |-> "none"]}
    ELSE LoaderEnvs

\* What an approval of item i meets: its own failure, or the environment of
\* the reload it triggers once it has dropped the cache entry.
ApproveEnvs(i) ==
    {[fail |-> x, env |-> [f |-> NoFile, fail |-> "none"]] : x \in Failures \ {"none"}}
    \cup {[fail |-> "none", env |-> e] :
            e \in IF i \in DOMAIN pending
                  THEN EnsureEnvs(TargetOf(pending[i].source_type), TRUE)
                  ELSE {[f |-> NoFile, fail |-> "none"]}}

\* The notices side: the notices corpus and the item types indexed into it.
\* The two corpora share the chunks table and the queue only, and no chunk id
\* of one is a chunk id of the other, so each side is explored on its own.
\* Items of a type approve_pending does not index touch no corpus; they are
\* explored on the schedule side.
Next ==
    \/ \E e \in LoaderEnvs : Ingest("notices", e.f, e.fail)
    \/ \E e \in EnsureEnvs("notices", FALSE) : Load("notices", e.f, e.fail)
    \/ \E t \in {"announcement", "custom_knowledge"}, k \in DocKeys : Submit(t, k)
    \/ \E i \in 1..MaxItems : \E e \in ApproveEnvs(i) : Approve(i, e.fail, e.env.f, e.env.fail)
    \/ \E i \in 1..MaxItems : Reject(i)

Spec == Init /\ [][Next]_vars

\* The writers of the relational store on the notices side: bulk ingest, the
\* periodic crawl of new notices, and the approvals of submitted items.  A
\* failed upsert differs from a failed encoding in the vector collection only,
\* which no writer of the relational store reads; here the embedding service
\* is the one that fails.
NextSync ==
    \/ \E e \in {x \in LoaderEnvs : x.fail # "upsert"} : Ingest("notices", e.f, e.fail)
    \/ \E rows \in RowSeqs, fail \in {"none", "encode"} : Sync(rows, fail)
    \/ \E t \in {"announcement", "custom_knowledge"}, k \in DocKeys : Submit(t, k)
    \/ \E i \in 1..MaxItems :
          \E e \in {x \in ApproveEnvs(i) : x.fail # "upsert" /\ x.env.fail # "upsert"} :
              Approve(i, e.fail, e.env.f, e.env.fail)

SpecSync == Init /\ [][NextSync]_vars

\* The moderation queue on its own: items of the types approve_pending
\* indexes outside the notices table, submitted and approved.
NextModerate ==
    \/ \E t \in {"event", "custom_knowledge"}, k \in DocKeys : Submit(t, k)
    \/ \E i \in 1..MaxItems : \E e \in ApproveEnvs(i) : Approve(i, e.fail, e.env.f, e.env.fail)

SpecModerate == Init /\ [][NextModerate]_vars

\* ------------------------------------------------------------ chunk_text
\* A call of chunk_text(text, size, overlap).  The text counts by the length
\* it has after normalize_whitespace, 0 for a text that is empty or blank.
ChunkCalls == [len : 0..MaxText, size : 1..MaxSize, overlap : 0..MaxOverlap]

Min(a, b) == IF a < b THEN a ELSE b

\* A step of the window that is not kept positive.
ChunkStepRaw(size, overlap) == size - overlap

\* step = max(1, size - overlap)
ChunkStepSize(size, overlap) == IF size - overlap > 1 THEN size - overlap ELSE 1

\* One pass of `for start in range(0, len(text), step)`: the window
\* text[start : start + size] is appended and the loop breaks when the window
\* reaches the end; the range ends the loop when start is not below len(text).
ChunkLoop ==
    /\ ct.pc = "loop"
    /\ IF ct.start >= ct.q.len
       THEN ct' = [ct EXCEPT !.pc = "done"]
       ELSE LET segment == <<ct.start, Min(ct.start + ct.q.size, ct.q.len)>>
            IN IF ct.start + ct.q.size >= ct.q.len
               THEN ct' = [ct EXCEPT !.pc = "done", !.segments = Append(@, segment)]
               ELSE ct' = [ct EXCEPT !.segments = Append(@, segment),
                                     !.start = @ + ChunkStepSize(ct.q.size, ct.q.overlap)]
    /\ UNCHANGED <<srcTable, ckTable, chunks, vec, disk, datasets, pending, last, rt, hs, aq, rk, mo, req, history, ing, dp>>

InitChunk ==
    /\ StoreInit
    /\ rt = 0
    /\ hs = 0
    /\ aq = 0
    /\ rk = 0
    /\ mo = 0
    /\ req = 0
    /\ history = 0
    /\ ing = 0
    /\ ct \in [q : ChunkCalls, pc : {"loop"}, start : {0}, segments : {<<>>}]
    /\ dp = 0

NextChunk == ChunkLoop

SpecChunk == InitChunk /\ [][NextChunk]_vars /\ WF_vars(NextChunk)

\* ------------------------------------------------- dataset cache alone
\* One corpus whose artifacts and cache entry are in any of the conditions the
\* service can find them in: each file absent or written at one of two times
\* (the chunk file is written before the sparse model, so either can be the
\* only one), the entry absent or recorded at any of those times.  The notices
\* table holds one approved notice, which any run of the ingest pipeline
\* replaces.
CacheChunk == make_chunk_id(make_doc_id("notices", 1, 0), 0)
CacheMtimes == 0..MaxMtime
CacheDisks ==
    {[chunk_exists |-> cm # NoMtime, chunk_ids |-> IF cm # NoMtime THEN <<CacheChunk>> ELSE <<>>,
      chunk_mtime |-> cm,
      tfidf_exists |-> tm # NoMtime, tfidf_rows |-> IF tm # NoMtime THEN <<CacheChunk>> ELSE <<>>,
      tfidf_mtime |-> tm] : cm \in {NoMtime} \cup CacheMtimes, tm \in {NoMtime} \cup CacheMtimes}
CacheEntries ==
    {NoEntry} \cup
    {[loaded |-> TRUE, chunks |-> ids, vectorizer |-> ids # <<>>, matrix |-> ids,
      chunk_mtime |-> cm, tfidf_mtime |-> tm] :
        ids \in {<<>>, <<CacheChunk>>},
        cm \in {NoMtime} \cup CacheMtimes, tm \in {NoMtime} \cup CacheMtimes}

InitCache ==
    /\ srcTable = [c \in Corpus |->
                      IF c = "notices" THEN {[id |-> 1, key |-> 1, manual |-> TRUE]} ELSE {}]
    /\ ckTable = {}
    /\ chunks = {ChunkRow(make_doc_id("notices", 1, 0), "notices", 1)}
    /\ vec = [c \in Corpus |-> {}]
    /\ disk \in {[c \in Corpus |-> IF c = "notices" THEN d ELSE NoArtifacts] : d \in CacheDisks}
    /\ datasets \in {[c \in Corpus |-> IF c = "notices" THEN e ELSE NoEntry] : e \in CacheEntries}
    /\ pending = <<>>
    /\ last = Last("init", "none", 0, TRUE, "none", "none", NoChunk, 0, NoRet, NoFile, 0)
    /\ rt = 0
    /\ hs = 0
    /\ aq = 0
    /\ rk = 0
    /\ mo = 0
    /\ req = 0
    /\ history = 0
    /\ ing = 0
    /\ ct = 0
    /\ dp = 0

NextCache == \E e \in EnsureEnvs("notices", FALSE) : Load("notices", e.f, e.fail)

SpecCache == InitCache /\ [][NextCache]_vars

\* ---------------------------------------------- ingest without a source
\* The first lines of ingest_<c> when the source file of c is absent, with a
\* delete of the chunk rows ahead of the test.
IngestAbsentPurge(w, c) ==
    IF c = "staff"
    THEN [w |-> [w EXCEPT !.chunks = {}], ok |-> TRUE, err |-> "none",
          chunks |-> <<>>, vectorizer |-> FALSE, matrix |-> <<>>]
    ELSE Raised([w EXCEPT !.chunks = {}], "missing")

\* The first lines of ingest_<c> when the source file of c is absent (for
\* courses, when either of its two files is): ingest_staff prints a warning
\* and returns (empty frame, None, None); the others raise FileNotFoundError.
IngestAbsentFile(w, c) ==
    IF c = "staff"
    THEN [w |-> w, ok |-> TRUE, err |-> "none",
          chunks |-> <<>>, vectorizer |-> FALSE, matrix |-> <<>>]
    ELSE Raised(w, "missing")

\* `python -m src.pipelines.ingest --target c` with the source of c absent.
IngestAbsent(c) ==
    /\ LET r == IngestAbsentFile(World, c)
       IN /\ SetWorld(r.w)
          /\ last' = Last("ingest", c, 0, r.ok, IF r.ok THEN "done" ELSE "raised", r.err,
                          NoChunk, 0, Ret(r), NoFile, 0)
    /\ UNCHANGED <<rt, hs, aq, rk, mo, req, history, ing, ct, dp>>

\* Ingests of any of the five corpora whose source is absent, among ingests
\* of the notices that fill the stores.
NextAbsent ==
    \/ \E e \in {x \in LoaderEnvs : x.f.exists} : Ingest("notices", e.f, e.fail)
    \/ \E c \in KnownCorpora : IngestAbsent(c)
    \/ \E t \in {"announcement", "custom_knowledge"}, k \in DocKeys : Submit(t, k)
    \/ \E i \in 1..MaxItems : \E e \in ApproveEnvs(i) : Approve(i, e.fail, e.env.f, e.env.fail)

SpecAbsent == Init /\ [][NextAbsent]_vars

\* The schedule side: the schedule corpus and the events indexed into it.
NextSchedule ==
    \/ \E e \in LoaderEnvs : Ingest("schedule", e.f, e.fail)
    \/ \E e \in EnsureEnvs("schedule", FALSE) : Load("schedule", e.f, e.fail)
    \/ \E t \in {"event", "other"}, k \in DocKeys : Submit(t, k)
    \/ \E i \in 1..MaxItems : \E e \in ApproveEnvs(i) : Approve(i, e.fail, e.env.f, e.env.fail)
    \/ \E i \in 1..MaxItems : Reject(i)

SpecSchedule == Init /\ [][NextSchedule]_vars

\* ------------------------------------------------------- observations
\* get_all_ids(collection)
VectorIds(c) == vec[c]
\* chunk_id of the chunks rows whose parent is a source record of corpus c
RelationalChunkIds(c) ==
    {r.chunk_id : r \in {x \in chunks : \E p \in srcTable[c] : ParentOf(x, c) = p.id}}
\* chunk_id column of the chunk file on disk
ChunkFileIds(c) == Range(disk[c].chunk_ids)
AllChunkIds == {r.chunk_id : r \in chunks}

\* ------------------------------------------------------------- claims
\* ---------------------------------------------------------- date parser
\* Dates are <<year, month, day>> of the proleptic Gregorian calendar, as
\* datetime.date; a timedelta of n days is n steps of NextDay or PrevDay.
IsLeap(y) == (y % 4 = 0 /\ y % 100 # 0) \/ y % 400 = 0
DaysIn(y, m) ==
    IF m = 2 THEN (IF IsLeap(y) THEN 29 ELSE 28)
    ELSE IF m \in {4, 6, 9, 11} THEN 30 ELSE 31
\* date(y, m, d) raises ValueError outside these.
ValidDate(y, m, d) == y \in 1..9999 /\ m \in 1..12 /\ d \in 1..DaysIn(y, m)
DateLE(a, b) ==
    \/ a[1] < b[1]
    \/ a[1] = b[1] /\ a[2] < b[2]
    \/ a[1] = b[1] /\ a[2] = b[2] /\ a[3] <= b[3]
NextDay(t) ==
    IF t[3] < DaysIn(t[1], t[2]) THEN <<t[1], t[2], t[3] + 1>>
    ELSE IF t[2] < 12 THEN <<t[1], t[2] + 1, 1>> ELSE <<t[1] + 1, 1, 1>>
PrevDay(t) ==
    IF t[3] > 1 THEN <<t[1], t[2], t[3] - 1>>
    ELSE IF t[2] > 1 THEN <<t[1], t[2] - 1, DaysIn(t[1], t[2] - 1)>>
    ELSE <<t[1] - 1, 12, 31>>
RECURSIVE AddDays(_, _)
AddDays(t, n) ==
    IF n = 0 THEN t
    ELSE IF n > 0 THEN AddDays(NextDay(t), n - 1) ELSE AddDays(PrevDay(t), n + 1)

\* The days the clock of the service can show: the ends of a year, the end of
\* February in a leap year, and days inside a month, on several weekdays.
\* weekday() is 0 for Monday.
Todays ==
    {[date |-> <<2024, 1, 1>>, weekday |-> 0], [date |-> <<2024, 2, 29>>, weekday |-> 3],
     [date |-> <<2024, 3, 3>>, weekday |-> 6], [date |-> <<2024, 12, 31>>, weekday |-> 1],
     [date |-> <<2025, 1, 5>>, weekday |-> 6], [date |-> <<2025, 11, 20>>, weekday |-> 3]}

\* The words _parse_relative_date looks for, in the order of its elif chain
\* (a word and its spaced spelling count as one).
RelativeWords == <<"today", "yesterday", "tomorrow", "last_week", "this_week",
                   "last_month", "this_month">>
NoYear == -1
NoDay == 0
\* What a query holds: some relative words, and at most one 'YYYY년 M월'
\* with or without 'D일' after it.
DateQueries ==
    [words : {S \in SUBSET Range(RelativeWords) : Cardinality(S) <= MaxWords},
     year : {NoYear}, month : {0}, day : {NoDay}]
    \cup [words : {S \in SUBSET Range(RelativeWords) : Cardinality(S) <= MaxWords},
          year : {0, 2023, 2024}, month : 0..13, day : {NoDay, 1, 29, 31}]

NoDateRange == [kind |-> "none", start |-> <<0, 0, 0>>, end |-> <<0, 0, 0>>]
DateRange(a, b) == [kind |-> "range", start |-> a, end |-> b]
DateRaised == [kind |-> "ValueError", start |-> <<0, 0, 0>>, end |-> <<0, 0, 0>>]

FirstOfMonth(t) == <<t[1], t[2], 1>>

parse_relative_date(q, now) ==
    LET today == now.date
        word == IF q.words = {} THEN "none"
                ELSE RelativeWords[CHOOSE i \in 1..Len(RelativeWords) :
                        /\ RelativeWords[i] \in q.words
                        /\ \A j \in 1..(i - 1) : RelativeWords[j] \notin q.words]
    IN  CASE word = "today" -> DateRange(today, today)
          [] word = "yesterday" -> DateRange(PrevDay(today), PrevDay(today))
          [] word = "tomorrow" -> DateRange(NextDay(today), NextDay(today))
          [] word = "last_week" ->
                LET s == AddDays(today, 0 - (now.weekday + 7))
                IN DateRange(s, AddDays(s, 6))
          [] word = "this_week" ->
                LET s == AddDays(today, 0 - now.weekday)
                IN DateRange(s, AddDays(s, 6))
          [] word = "last_month" ->
                LET e == PrevDay(FirstOfMonth(today))
                IN DateRange(FirstOfMonth(e), e)
          [] word = "this_month" ->
                DateRange(FirstOfMonth(today),
                          IF today[2] = 12 THEN PrevDay(<<today[1] + 1, 1, 1>>)
                          ELSE PrevDay(<<today[1], today[2] + 1, 1>>))
          [] OTHER -> NoDateRange

\* The pattern 'YYYY년 M월' is searched first, and it also matches the head
\* of 'YYYY년 M월 D일'; the pattern with the day is searched only after it
\* gave nothing.
parse_specific_date(q) ==
    IF q.year = NoYear THEN NoDateRange
    ELSE IF q.month \in 1..12
    THEN IF ~ValidDate(q.year, q.month, 1) THEN DateRaised
         ELSE DateRange(<<q.year, q.month, 1>>,
                        IF q.month = 12 THEN PrevDay(<<q.year + 1, 1, 1>>)
                        ELSE PrevDay(<<q.year, q.month + 1, 1>>))
    ELSE IF q.day # NoDay /\ ValidDate(q.year, q.month, q.day)
    THEN DateRange(<<q.year, q.month, q.day>>, <<q.year, q.month, q.day>>)
    ELSE NoDateRange

extract_date_range_from_query(q, now) ==
    IF parse_relative_date(q, now).kind # "none" THEN parse_relative_date(q, now)
    ELSE parse_specific_date(q)

ExtractDateRange ==
    /\ ~dp.called
    /\ dp' = [dp EXCEPT !.called = TRUE,
                        !.result = extract_date_range_from_query(dp.q, dp.now)]
    /\ UNCHANGED <<srcTable, ckTable, chunks, vec, disk, datasets, pending, last, rt, hs, aq, rk, mo, req, history, ing, ct>>

InitDate ==
    /\ StoreInit
    /\ rt = 0
    /\ hs = 0
    /\ aq = 0
    /\ rk = 0
    /\ mo = 0
    /\ req = 0
    /\ history = 0
    /\ ing = 0
    /\ ct = 0
    /\ dp \in [q : DateQueries, now : Todays, called : {FALSE}, result : {NoDateRange}]

NextDate == ExtractDateRange

SpecDate == InitDate /\ [][NextDate]_vars

\* C1: after a successful bulk ingest of a corpus the ids of its vector
\* collection, the rows of the sparse matrix, the chunk table the ingest
\* returned and the relational chunks of the corpus are the same set.
C1_IndexAgreement ==
    (last.op = "ingest" /\ last.ok) =>
        /\ VectorIds(last.c) = Range(last.ret.matrix)
        /\ Range(last.ret.matrix) = Range(last.ret.chunks)
        /\ Range(last.ret.chunks) = RelationalChunkIds(last.c)

\* C2: a successful ingest that directly follows a successful ingest of the
\* same corpus from the same source file changes no chunk-id set (relational
\* chunks, chunk file, vector collection) and not the number of vectors.
C2_IngestIdempotent ==
    [][\A c \in Corpus :
          (last'.op = "ingest" /\ last'.c = c /\ last'.streak = 2) =>
              /\ AllChunkIds' = AllChunkIds
              /\ RelationalChunkIds(c)' = RelationalChunkIds(c)
              /\ ChunkFileIds(c)' = ChunkFileIds(c)
              /\ VectorIds(c)' = VectorIds(c)
              /\ Cardinality(VectorIds(c))' = Cardinality(VectorIds(c))]_vars

C2_Witness ==
    /\ last.op = "ingest"
    /\ last.streak = 2
    /\ VectorIds(last.c) # {}
    /\ RelationalChunkIds(last.c) = VectorIds(last.c)

\* C3: when approve returns an error because the embedding call or the vector
\* upsert raised, the relational inserts of that approval are gone: no chunk
\* row of the approval lacks its vector and no source record of it remains.
C3_RollbackOnFailure ==
    (last.op = "approve" /\ last.err \in {"encode", "upsert"}) =>
        /\ ~(last.chunk_id \in AllChunkIds /\ last.chunk_id \notin VectorIds(last.c))
        /\ ~\E r \in srcTable[last.c] : r.id = last.src_id /\ r.manual

\* C4: when approve returns approved with chunk id H, H is in the relational
\* chunks table, in the target vector collection and in the chunk table and
\* the sparse matrix of the cache entry of that corpus.
C4_ApprovedIsIndexed ==
    (last.op = "approve" /\ last.status = "approved") =>
        /\ last.chunk_id \in AllChunkIds
        /\ last.chunk_id \in VectorIds(last.c)
        /\ datasets[last.c].loaded
        /\ last.chunk_id \in Range(datasets[last.c].chunks)
        /\ last.chunk_id \in Range(datasets[last.c].matrix)

\* C5: once a queue item is approved or rejected no call changes its status.
C5_StatusTerminal ==
    [][\A i \in DOMAIN pending :
          pending[i].status \in {"approved", "rejected"} =>
              pending'[i].status = pending[i].status]_vars

\* C6: approving an announcement whose title, board and date equal those of an
\* announcement approved before succeeds with a chunk id of its own, and both
\* chunk ids are in the vector collection and in the relational chunks table.
C6_CollidingApprovals ==
    (/\ last.op = "approve"
     /\ last.err \notin {"encode", "upsert", "not_found"}
     /\ pending[last.id].source_type = "announcement"
     /\ \E j \in DOMAIN pending :
           /\ j # last.id
           /\ pending[j].source_type = "announcement"
           /\ pending[j].key = pending[last.id].key
           /\ pending[j].status = "approved"
           /\ make_doc_id("notices", pending[j].key, 0) \in VectorIds("notices"))
    => /\ last.status = "approved"
       /\ last.chunk_id # make_doc_id("notices", pending[last.id].key, 0)
       /\ {last.chunk_id, make_doc_id("notices", pending[last.id].key, 0)}
             \subseteq (VectorIds("notices") \cap AllChunkIds)

\* C7: reject writes the status of the item and nothing else: the source
\* tables, the chunks table, the vector collections, the artifacts on disk,
\* the dataset cache and every other field of the queue stay as they were.
C7_RejectFrame ==
    [][last'.op = "reject" =>
          /\ UNCHANGED <<srcTable, ckTable, chunks, vec, disk, datasets>>
          /\ DOMAIN pending' = DOMAIN pending
          /\ \A j \in DOMAIN pending :
                /\ j # last'.id => pending'[j] = pending[j]
                /\ pending'[j].source_type = pending[j].source_type
                /\ pending'[j].key = pending[j].key]_vars

C7_Witness ==
    /\ last.op = "reject"
    /\ last.id \in DOMAIN pending
    /\ pending[last.id].status = "rejected"
    /\ make_doc_id(TableOf(pending[last.id].source_type), pending[last.id].key, 0)
          \in VectorIds("notices")

\* C8: for every query (blank, or with the classifier absent, raising or
\* answering anything) route_query returns a non-empty list of known corpora.
C8_RouteNonEmptyKnown ==
    rt.called => (rt.result # <<>> /\ Range(rt.result) \subseteq KnownCorpora)

C8_Witness ==
    /\ rt.called
    /\ rt.q.model = "ok"
    /\ "legacy" \in Range(rt.q.classes)
    /\ rt.result # keyword_route(rt.q)

\* C9: with a parsed date range [A,B], every row /ask returns from notices,
\* schedule or rules has a parseable date on a day between A and B.
C9_DateFilter ==
    (aq.called /\ aq.range # NoRange) =>
        \A i \in DOMAIN aq.rows :
            aq.rows[i].dataset \in DateFiltered =>
                /\ aq.rows[i].published_at[1] = "date"
                /\ aq.range[2] <= aq.rows[i].published_at[2]
                /\ aq.rows[i].published_at[2] <= aq.range[3]

C9_Witness ==
    /\ aq.called
    /\ aq.range # NoRange
    /\ \E i \in DOMAIN aq.rows : aq.rows[i].dataset = "notices"
    /\ \E j \in DOMAIN aq.route :
          /\ aq.route[j].dataset = "rules"
          /\ aq.route[j].hits # <<>>
          /\ aq.route[j].hits[1].published_at[1] = "missing"
    /\ \A i \in DOMAIN aq.rows : aq.rows[i].dataset # "rules"

\* C10: when hybrid_search is given a filter on major, every row it returns
\* is a chunk the vector store returned under the filter, so its major is the
\* one asked for, whatever the sparse index ranks.
C10_FilterKeepsDenseOnly ==
    (hs.called /\ hs.q.where_filter # "none") =>
        \A j \in DOMAIN hs.rows :
            /\ hs.rows[j][1] \in hs.vec_ids
            /\ hs.q.major[hs.rows[j][1]] = hs.q.where_filter

C10_Witness ==
    /\ hs.called
    /\ hs.q.where_filter # "none"
    /\ hs.rows # <<>>
    /\ \E i \in ChunkKeys :
          /\ hs.q.major[i] # hs.q.where_filter
          /\ hs.q.sparse[i] = MaxScore
          /\ hs.q.dense[i] = MaxScore
          /\ \A j \in DOMAIN hs.rows :
                hs.q.sparse[hs.rows[j][1]] < MaxScore /\ hs.rows[j][1] # i
\* C11: after the normalisation of a non-empty merged result set every row has
\* norm_hybrid, norm_recency and final_score in [0,1], also when all hybrid
\* scores or all dates are equal, with a single row, and with rows that have
\* no date.
C11_NormalizedRange ==
    rk.called =>
        \A i \in DOMAIN rk.out :
            LET InUnit(x) == x.d > 0 /\ 0 <= x.n /\ x.n <= x.d
            IN /\ InUnit(rk.out[i].norm_hybrid)
               /\ InUnit(rk.out[i].norm_recency)
               /\ InUnit(rk.out[i].final_score)

\* A re-ranked set of three rows, one without a date and the others with two
\* different dates, and with different hybrid scores.
C11_Witness ==
    /\ rk.called
    /\ Len(rk.out) = 3
    /\ \E i, j, k \in DOMAIN rk.out :
          /\ rk.out[i].sort_date = NaT
          /\ rk.out[j].sort_date # NaT /\ rk.out[k].sort_date # NaT
          /\ rk.out[j].sort_date < rk.out[k].sort_date
          /\ rk.out[i].hybrid_score # rk.out[j].hybrid_score
          /\ rk.out[i].norm_recency.n = 0

\* The position of chunk x in a list of ids, 0 when it is not in the list.
PositionOf(ids, x) ==
    IF \E p \in DOMAIN ids : ids[p] = x THEN CHOOSE p \in DOMAIN ids : ids[p] = x ELSE 0

\* The rows of a re-ranked frame whose final score is above that of row x.
AheadOf(out, x) ==
    {out[p].row : p \in {r \in DOMAIN out :
        \E s \in DOMAIN out : /\ out[s].row = x
                               /\ ~FracLeq(out[r].final_score, out[s].final_score)}}

C13_EmptyQuestionRejected ==
    [][\A r \in Reqs :
          (/\ req[r].pc = "idle"
           /\ req'[r].pc # "idle"
           /\ \A i \in DOMAIN req'[r].question : req'[r].question[i] = " ")
          => /\ req'[r].pc = "done"
             /\ req'[r].status = 400
             /\ datasets' = datasets
             /\ history' = history
             /\ UNCHANGED <<srcTable, ckTable, chunks, vec, disk, pending>>]_vars

\* A question of one blank was refused after another request of the same
\* session had been answered from a loaded dataset.
C13_Witness ==
    \E r, o \in Reqs :
        /\ req[r].pc = "done" /\ req[r].status = 400 /\ req[r].question = <<" ">>
        /\ req[o].status = 200 /\ req[o].order < req[r].order
        /\ req[o].session = req[r].session
        /\ Len(history[req[r].session]) = 2
        /\ datasets["notices"].loaded

\* C14: the chunk table and the sparse matrix a retrieval receives from
\* _ensure_dataset, and those of every cache entry, are row-aligned: as many
\* rows, and row i of the matrix computed from chunk i of the table, also
\* while an ingest runs.
C14_RowAligned ==
    /\ \A r \in Reqs : req[r].pc = "llm" => req[r].matrix = req[r].chunks
    /\ \A c \in Corpus : datasets[c].loaded => datasets[c].matrix = datasets[c].chunks

\* C15: the history of a session holds the turns of its own requests only,
\* and the question and the answer of a request that arrived earlier come
\* before those of a request of the session that arrived later.
C15_HistoryInRequestOrder ==
    \A s \in Sessions :
        /\ \A i \in DOMAIN history[s] : req[history[s][i].r].session = s
        /\ \A i, j \in DOMAIN history[s] :
              req[history[s][i].r].order < req[history[s][j].r].order => i < j

\* C16: the stat check and the load that follows it are one critical section
\* per corpus: no two requests are loading the same corpus at once.
C16_LoadAtMostOnce ==
    \A r1, r2 \in Reqs :
        (/\ r1 # r2
         /\ req[r1].pc \in {"load", "read_tfidf", "store"}
         /\ req[r2].pc \in {"load", "read_tfidf", "store"})
        => req[r1].key # req[r2].key

\* C17: a bulk ingest that fails after the source records were replaced and
\* before the vector upsert (the embedding call raises, or the chunk rows
\* cannot be saved) leaves the fresh source records and no chunk row of the
\* corpus in the relational store; the ingest run again from the same file
\* then restores the agreement of the three indices.
C17_FailedIngestRecoverable ==
    /\ (last.op = "ingest" /\ ~last.ok /\ last.err \in {"encode", "integrity"}) =>
            /\ srcTable[last.c] = FreshSources(last.c, last.file.rows)
            /\ RelationalChunkIds(last.c) = {}
    /\ (last.op = "ingest" /\ last.ok /\ last.streak = 3) =>
            /\ VectorIds(last.c) = ChunkFileIds(last.c)
            /\ ChunkFileIds(last.c) = Range(disk[last.c].tfidf_rows)
            /\ VectorIds(last.c) = RelationalChunkIds(last.c)

\* C18: in every state of the relational store, after any sequence of bulk
\* ingests, notice syncs and approvals, each chunks row has exactly one
\* non-NULL parent foreign key and that key is the primary key of a record
\* of the table it refers to.
ParentKeys(r) ==
    {t \in {"notices", "schedule", "custom_knowledge"} :
        (CASE t = "notices" -> r.notice_id
           [] t = "schedule" -> r.schedule_id
           [] OTHER -> r.custom_knowledge_id) # NULL}

C18_OneParent ==
    \A r \in chunks :
        /\ Cardinality(ParentKeys(r)) = 1
        /\ r.notice_id # NULL => \E p \in srcTable["notices"] : p.id = r.notice_id
        /\ r.schedule_id # NULL => \E p \in srcTable["schedule"] : p.id = r.schedule_id
        /\ r.custom_knowledge_id # NULL => \E p \in ckTable : p.id = r.custom_knowledge_id

\* A sync has just added a notice and its chunk next to the chunks of an
\* approved announcement and of an approved custom-knowledge item.
C18_Witness ==
    /\ last.op = "sync" /\ last.ok /\ last.ret.chunks # <<>>
    /\ \E r \in chunks : r.custom_knowledge_id # NULL
    /\ \E r \in chunks : r.notice_id # NULL
                          /\ \E p \in srcTable["notices"] : p.id = r.notice_id /\ p.manual
    /\ \E r \in chunks : r.notice_id # NULL
                          /\ \E p \in srcTable["notices"] : p.id = r.notice_id /\ ~p.manual

\* C19: when an approval has inserted its relational rows and the vector
\* upsert then fails, the queue item is marked approved_but_unindexed: it is
\* neither left pending nor marked approved.
C19_ApprovedButUnindexed ==
    (/\ last.op = "approve"
     /\ last.err = "upsert"
     /\ \E r \in chunks : r.chunk_id = last.chunk_id)
        => pending[last.id].status = "approved_but_unindexed"

\* C20: every row hybrid_search returns carries as hybrid_score the fusion
\* alpha * dense + (1 - alpha) * sparse of the chunk of that same row, a
\* missing score counting as 0, also when some of the top-k candidates are
\* not in the chunk table and are dropped from the result.
C20_RowScoreOfSameChunk ==
    hs.called =>
        \A j \in DOMAIN hs.rows :
            hs.rows[j][2] = HybridScore(hs.q, hs.vec_ids, hs.sparse_ids, hs.rows[j][1])

LookupBoth == disk["notices"].chunk_exists /\ disk["notices"].tfidf_exists
LookupNeither == ~disk["notices"].chunk_exists /\ ~disk["notices"].tfidf_exists
LookupHit == CacheHit(datasets["notices"], disk["notices"])
\* The ingest pipeline ran: it raised for want of a source file, or replaced
\* or removed the source records.
LookupIngested == last'.err = "missing" \/ srcTable' # srcTable
LookupReturns(ids, matrix) == last'.ret.chunks = ids /\ last'.ret.matrix = matrix
LookupRecorded ==
    last'.ok => /\ datasets'["notices"].loaded
                /\ datasets'["notices"].chunk_mtime = disk'["notices"].chunk_mtime
                /\ datasets'["notices"].tfidf_mtime = disk'["notices"].tfidf_mtime

RouterFellBack ==
    /\ rt.called
    /\ ~rt.q.blank
    /\ \/ rt.q.model \in {"none", "raises"}
       \/ Len(rt.q.probabilities) = 0
       \/ UniqueValid(SelectFrom(rt.q, ArgsortDesc(rt.q.probabilities), 1, <<>>), <<>>) = <<>>

\* C23 as stated: whenever the router falls back, route(query) is exactly
\* [notices].
C23_FallbackIsNotices == RouterFellBack => rt.result = <<"notices">>

\* C23, amended: whenever the router falls back, route(query) is the list
\* of the corpora whose keywords occur in the query, in the order of
\* ROUTER_RULES, and [notices] only when no keyword occurs.
C23_FallbackIsKeywordRoute ==
    RouterFellBack =>
        IF rt.q.hits = {}
        THEN rt.result = <<"notices">>
        ELSE /\ Range(rt.result) = rt.q.hits
             /\ NoDup(rt.result)
             /\ \A i, j \in DOMAIN rt.result :
                   i < j => \E a, b \in DOMAIN RouterRuleKeys :
                               /\ a < b
                               /\ RouterRuleKeys[a] = rt.result[i]
                               /\ RouterRuleKeys[b] = rt.result[j]

\* The classifier answered with a label of no corpus only, and the query
\* holds keywords of two corpora other than notices.
C23_Witness ==
    /\ RouterFellBack
    /\ rt.q.model = "ok"
    /\ Len(rt.q.probabilities) > 0
    /\ rt.result = <<"rules", "courses">>

\* C24: after a bulk ingest of a corpus that found its source file, the
\* source table of the corpus holds exactly the records of the file (for the
\* schedule, of the rows with a description), none of them a record that
\* existed before or that an approval created, and every chunk row of the
\* corpus belongs to one of these records and is the chunk of its document.
C24_ReplacedWholesale ==
    (last.op = "ingest" /\ last.err # "missing") =>
        LET c == last.c
            rows == last.file.rows
            kept == {i \in 1..Len(rows) : c = "notices" \/ rows[i] # 0}
        IN /\ Cardinality(srcTable[c]) = Cardinality(kept)
           /\ \A p \in srcTable[c] : ~p.manual /\ p.id \in 1..Cardinality(kept)
           /\ \A i \in kept : \E p \in srcTable[c] : p.key = rows[i]
           /\ \A p \in srcTable[c] : \E i \in kept : p.key = rows[i]
           /\ \A r \in chunks :
                 ParentOf(r, c) # NULL =>
                    \E p \in srcTable[c] :
                       /\ p.id = ParentOf(r, c)
                       /\ r.chunk_id = make_chunk_id(make_doc_id(c, p.key, 0), 0)

\* An ingest of a file with a notice has run after an announcement was
\* approved, whose notice and chunk had survived until then.
C24_Witness ==
    /\ last.op = "ingest" /\ last.ok /\ last.file.rows # <<>>
    /\ srcTable[last.c] # {}
    /\ \E i \in DOMAIN pending :
          /\ pending[i].source_type = "announcement"
          /\ pending[i].status = "approved"
    /\ \E r \in chunks : r.custom_knowledge_id # NULL

\* C25 as stated: an ingest of any of the five corpora whose source file is
\* absent fails with FileNotFoundError and leaves every store as it was.
C25_MissingSourceRaises ==
    [][(last'.op = "ingest" /\ last'.file = NoFile) =>
          /\ ~last'.ok /\ last'.err = "missing"
          /\ UNCHANGED <<srcTable, ckTable, chunks, vec, disk, datasets, pending>>]_vars

\* C25, amended: an ingest of notices, rules, schedule or courses whose
\* source file is absent fails with FileNotFoundError; an ingest of staff
\* whose source file is absent reports it and returns an empty result without
\* an error; either way every store is left as it was.
C25_MissingSourceTouchesNothing ==
    [][(last'.op = "ingest" /\ last'.file = NoFile) =>
          /\ IF last'.c = "staff"
             THEN last'.ok /\ last'.err = "none" /\ last'.ret = NoRet
             ELSE ~last'.ok /\ last'.err = "missing"
          /\ UNCHANGED <<srcTable, ckTable, chunks, vec, disk, datasets, pending>>]_vars

\* The staff ingest has returned without its source file while the stores
\* hold an ingested notice and an approved item.
C25_Witness ==
    /\ last.op = "ingest" /\ last.c = "staff" /\ last.file = NoFile /\ last.ok
    /\ vec["notices"] # {}
    /\ srcTable["notices"] # {}
    /\ \E r \in chunks : r.custom_knowledge_id # NULL

\* C26: chunk_text terminates for every text, size >= 1 and overlap >= 0,
\* overlap >= size included; window j starts at j * max(1, size - overlap) and
\* is at most size long; the windows cover every character of the normalized
\* text; and the last window is the only one that ends at the end of the text.
ChunkWindowsRight ==
    LET q == ct.q
        segs == ct.segments
        step == IF q.size - q.overlap > 1 THEN q.size - q.overlap ELSE 1
    IN /\ Len(segs) <= q.len
       /\ \A j \in DOMAIN segs :
             /\ segs[j][1] = (j - 1) * step
             /\ segs[j][2] > segs[j][1]
             /\ segs[j][2] - segs[j][1] <= q.size
             /\ segs[j][2] <= q.len
       /\ ct.pc = "done" =>
             /\ \A ch \in 0..(q.len - 1) :
                   \E j \in DOMAIN segs : segs[j][1] <= ch /\ ch < segs[j][2]
             /\ \A j \in DOMAIN segs : (segs[j][2] = q.len) <=> (j = Len(segs))
             /\ q.len > 0 => segs # <<>>

C26_ChunkTerminatesAndCovers == []ChunkWindowsRight /\ <>(ct.pc = "done")

\* A call whose overlap is not below its size has finished with a window for
\* every character.
C26_Witness ==
    /\ ct.pc = "done"
    /\ ct.q.overlap >= ct.q.size
    /\ ct.q.size > 1
    /\ Len(ct.segments) > 2

\* C27: a retrieval over a corpus that has nothing to return, because no
\* candidate was found or because the cached chunk table is empty, returns an
\* empty frame without an error, and /ask goes on to answer (no 5xx).
C27_EmptyRetrievalIsGraceful ==
    (hs.called /\ hs.rows = <<>>) => (hs.error = "none" /\ hs.status = 200)

\* C28: over any sequence of approve calls a queue item has at most one source
\* record and one chunk row, so the records and the chunk rows that approvals
\* created never outnumber the queue items.
C28_OneRecordPerItem ==
    /\ ManualRecords <= Len(pending)
    /\ Cardinality({r \in chunks : r.chunk_id[1] = "doc"}) <= Len(pending)

\* C29: a chunk an approval added to the notices collection is still there
\* after a later bulk ingest or notice sync (with its re-index from the
\* database) for as long as its relational chunk row exists.
C29_ApprovedChunkStaysIndexed ==
    [][last'.op \in {"ingest", "sync"} =>
          \A r \in chunks \cap chunks' :
              (r.chunk_id[1] = "doc" /\ r.schedule_id = NULL /\ r.chunk_id \in vec["notices"])
                  => r.chunk_id \in vec'["notices"]]_vars

\* C30: extract_date_range_from_query returns start <= end for every query
\* it recognises; a query with 'YYYY년 M월 D일' and no relative-date word
\* gives the range of that single day, and one with 'YYYY년 M월' the first
\* through the last day of that month.
C30_DateRangeOfQuery ==
    dp.called =>
        /\ dp.result.kind = "range" => DateLE(dp.result.start, dp.result.end)
        /\ (dp.q.words = {} /\ dp.q.day # NoDay /\ ValidDate(dp.q.year, dp.q.month, dp.q.day))
              => dp.result = DateRange(<<dp.q.year, dp.q.month, dp.q.day>>,
                                       <<dp.q.year, dp.q.month, dp.q.day>>)
        /\ (dp.q.words = {} /\ dp.q.day = NoDay /\ ValidDate(dp.q.year, dp.q.month, 1))
              => dp.result = DateRange(<<dp.q.year, dp.q.month, 1>>,
                                       <<dp.q.year, dp.q.month, DaysIn(dp.q.year, dp.q.month)>>)

====
